---- MODULE Spec2Model ----
(***************************************************************************)
(* MovieLens read-only query API (apimoovie).                              *)
(*                                                                         *)
(* Two FastAPI applications are in the repository: api/main.py (paginated  *)
(* list/lookup endpoints) and test_main.py (search, aggregate, similarity  *)
(* and recommendation endpoints).  Both delegate to the module             *)
(* query_helpers, whose behaviour is taken from the design document.       *)
(*                                                                         *)
(* Strings are sequences of one-character strings, so that substring       *)
(* matching, case folding, genre splitting and lexicographic order are     *)
(* computed rather than assumed.  Ratings are counted in half stars        *)
(* (0..10 stands for 0.0..5.0).                                            *)
(***************************************************************************)
EXTENDS Integers, Sequences, FiniteSets, TLC

VARIABLES movies, ratings, tags, links, db0, pc, req, resp, calls, session,
          handle

vars == <<movies, ratings, tags, links, db0, pc, req, resp, calls, session,
          handle>>

dataset == <<movies, ratings, tags, links>>

----------------------------------------------------------------------------
(* Bounds of the model *)

MaxSkip == 2
MaxLimit == 3
MaxUserId == 2
MaxMovieId == 3
MaxConcurrent == 2

(* Program constants *)

LIKED_THRESHOLD == 8
RATING_MAX == 10
LIST_LIMIT_CAP == 1000
MOVIES_LIMIT_CAP == 500
SIMILAR_LIMIT_CAP == 50
SIMILAR_LIMIT_DEFAULT == 10
RECO_LIMIT_CAP == 50
TAGS_LIMIT_CAP == 100
SEARCH_LIMIT_CAP == 200

(* Python's Optional: None is the empty set, a present value v is {v} *)
None == {}
Some(v) == {v}
Val(o) == CHOOSE v \in o : TRUE

----------------------------------------------------------------------------
(* Strings *)

LowerChar(c) ==
    CASE c = "A" -> "a"
      [] c = "B" -> "b"
      [] c = "C" -> "c"
      [] c = "D" -> "d"
      [] c = "F" -> "f"
      [] OTHER -> c

Lower(s) == [i \in 1..Len(s) |-> LowerChar(s[i])]

CharCode(c) ==
    CASE c = "A" -> 65
      [] c = "B" -> 66
      [] c = "C" -> 67
      [] c = "D" -> 68
      [] c = "F" -> 70
      [] c = "a" -> 97
      [] c = "b" -> 98
      [] c = "c" -> 99
      [] c = "d" -> 100
      [] c = "f" -> 102
      [] c = "o" -> 111
      [] c = "r" -> 114
      [] c = "u" -> 117
      [] c = "n" -> 110
      [] c = "z" -> 122
      [] c = "|" -> 124
      [] OTHER -> 32

(* s contains p as a contiguous substring *)
Contains(s, p) ==
    \E i \in 1..(Len(s) - Len(p) + 1) : SubSeq(s, i, i + Len(p) - 1) = p

(* SQL  column ILIKE '%p%' *)
ILike(s, p) == Contains(Lower(s), Lower(p))

(* strict lexicographic order by character code *)
StrLess(s, t) ==
    \E k \in 1..(Len(t)) :
        /\ k - 1 <= Len(s)
        /\ \A i \in 1..(k - 1) : s[i] = t[i]
        /\ \/ k = Len(s) + 1
           \/ k <= Len(s) /\ CharCode(s[k]) < CharCode(t[k])

RECURSIVE SplitFrom(_, _, _)
SplitFrom(s, i, cur) ==
    IF i > Len(s) THEN <<cur>>
    ELSE IF s[i] = "|" THEN <<cur>> \o SplitFrom(s, i + 1, <<>>)
    ELSE SplitFrom(s, i + 1, Append(cur, s[i]))

(* genres.split('|') as a set of genre names; empty names are dropped *)
GenreSet(g) ==
    LET parts == SplitFrom(g, 1, <<>>)
    IN  {parts[i] : i \in 1..Len(parts)} \ {<<>>}

----------------------------------------------------------------------------
(* Rows the data store may hold *)

Title_Ab  == <<"A", "b">>
Title_aB  == <<"a", "B">>
Title_Ba  == <<"B", "a">>
Title_Cab == <<"C", "a", "b">>

Genres_AcCo   == <<"A", "c", "|", "C", "o">>
Genres_Co     == <<"C", "o">>
Genres_AcCoDr == <<"A", "c", "|", "C", "o", "|", "D", "r">>
Genres_Dr     == <<"D", "r">>
Genres_CoDr   == <<"C", "o", "|", "D", "r">>
Genres_none   == <<>>

Tag_fun == <<"f", "u", "n">>
Tag_Fun == <<"F", "u", "n">>
Tag_dud == <<"d", "u", "d">>
Tag_fu  == <<"f", "u">>

Movie(id, t, g) == [movieId |-> id, title |-> t, genres |-> g]
Rating(u, m, r) == [userId |-> u, movieId |-> m, rating |-> r]
Tag(u, m, t)    == [userId |-> u, movieId |-> m, tag |-> t]
Link(m, i)      == [movieId |-> m, imdbId |-> i]

MovieRows ==
    { Movie(1, Title_Ab, Genres_AcCo),
      Movie(2, Title_aB, Genres_Co),
      Movie(2, Title_Ba, Genres_AcCoDr),
      Movie(3, Title_Cab, Genres_Dr),
      Movie(3, Title_Cab, Genres_CoDr),
      Movie(3, Title_Cab, Genres_none) }

RatingRows ==
    { Rating(1, 1, 10), Rating(1, 1, 6), Rating(1, 2, 8), Rating(1, 3, 0),
      Rating(2, 1, 6), Rating(2, 2, 0), Rating(2, 3, 10) }

TagRows ==
    { Tag(1, 1, Tag_fun), Tag(2, 1, Tag_fun), Tag(1, 1, Tag_Fun),
      Tag(1, 2, Tag_dud), Tag(2, 2, Tag_fu) }

LinkRows == { Link(1, "tt1"), Link(2, "tt2") }

(* primary keys are unique *)
MovieKeyOk(M)  == \A a, b \in M : a.movieId = b.movieId => a = b
RatingKeyOk(R) == \A a, b \in R :
                     (a.userId = b.userId /\ a.movieId = b.movieId) => a = b

(* every Rating/Tag/Link row references an existing Movie *)
RefOk(M, rows) == \A x \in rows : \E m \in M : m.movieId = x.movieId

DefaultMovies ==
    { Movie(1, Title_Ab, Genres_AcCo), Movie(2, Title_aB, Genres_Co),
      Movie(3, Title_Cab, Genres_Dr) }

DB(M, R, T, L) == [movies |-> M, ratings |-> R, tags |-> T, links |-> L]

(* the datasets the model is started on: every consistent movie and rating  *)
(* table with a fixed tag and link table, and every tag and link table over *)
(* the movies of the design document's scenario                             *)
Datasets ==
    { DB(M, R, {t \in {Tag(1, 1, Tag_fun)} : RefOk(M, {t})},
               {l \in {Link(1, "tt1")} : RefOk(M, {l})}) :
        M \in {X \in SUBSET MovieRows : MovieKeyOk(X)},
        R \in {Y \in SUBSET RatingRows : RatingKeyOk(Y)} }
    \cup
    { DB(DefaultMovies, {Rating(1, 1, 10)}, T, L) :
        T \in SUBSET TagRows, L \in SUBSET LinkRows }

WellFormed(d) ==
    /\ MovieKeyOk(d.movies)
    /\ RatingKeyOk(d.ratings)
    /\ RefOk(d.movies, d.ratings)
    /\ RefOk(d.movies, d.tags)
    /\ RefOk(d.movies, d.links)

----------------------------------------------------------------------------
(* query_helpers: data access primitives, filters and pagination *)

Min(a, b) == IF a <= b THEN a ELSE b

(* outcome of a core operation that validates its arguments *)
Ok(v) == [err |-> FALSE, val |-> v]
InvalidInput == [err |-> TRUE, val |-> <<>>]

(* the rows of S as a sequence in ascending rank, *)
(* where rank[x] is the number of rows of S that come before x *)
SortedSeq(S, rank) ==
    [i \in 1..Cardinality(S) |-> CHOOSE x \in S : rank[x] = i - 1]

ByMovieId(a, b) == a.movieId < b.movieId

ByRatingKey(a, b) ==
    \/ a.userId < b.userId
    \/ a.userId = b.userId /\ a.movieId < b.movieId

ByTagKey(a, b) ==
    \/ a.userId < b.userId
    \/ a.userId = b.userId /\ a.movieId < b.movieId
    \/ a.userId = b.userId /\ a.movieId = b.movieId /\ StrLess(a.tag, b.tag)

(* skip, then limit *)
Paginate(seq, skip, limit) ==
    SubSeq(seq, skip + 1, Min(Len(seq), skip + limit))

(* defensive validation of the pagination arguments *)
PageArgsOk(skip, limit) == skip >= 0 /\ limit >= 0

RatingArgOk(r) == r = None \/ (Val(r) >= 0 /\ Val(r) <= RATING_MAX)

TitleMatch(m, title) == title = None \/ ILike(m.title, Val(title))

GenreMatch(m, genre) == genre = None \/ ILike(m.genres, Val(genre))

(* the fully filtered movie sequence, in primary-key order *)
FilteredMovies(db, title, genre) ==
    LET hits == {m \in db.movies : TitleMatch(m, title) /\ GenreMatch(m, genre)}
    IN  SortedSeq(hits,
                  [x \in hits |-> Cardinality({y \in hits : ByMovieId(y, x)})])

helpers_get_movie(db, movie_id) ==
    IF \E m \in db.movies : m.movieId = movie_id
    THEN Some(CHOOSE m \in db.movies : m.movieId = movie_id)
    ELSE None

helpers_get_movies(db, skip, limit, title, genre) ==
    IF ~PageArgsOk(skip, limit) THEN InvalidInput
    ELSE Ok(Paginate(FilteredMovies(db, title, genre), skip, limit))

qh_get_all_movies(db, skip, limit) ==
    IF ~PageArgsOk(skip, limit) THEN InvalidInput
    ELSE Ok(Paginate(FilteredMovies(db, None, None), skip, limit))

qh_get_movies_by_title(db, title) == FilteredMovies(db, Some(title), None)

helpers_get_rating(db, user_id, movie_id) ==
    IF \E r \in db.ratings : r.userId = user_id /\ r.movieId = movie_id
    THEN Some(CHOOSE r \in db.ratings :
                   r.userId = user_id /\ r.movieId = movie_id)
    ELSE None

helpers_get_ratings(db, skip, limit, movie_id, user_id, min_rating) ==
    IF ~PageArgsOk(skip, limit) \/ ~RatingArgOk(min_rating) THEN InvalidInput
    ELSE LET hits == {r \in db.ratings :
                        /\ movie_id = None \/ r.movieId = Val(movie_id)
                        /\ user_id = None \/ r.userId = Val(user_id)
                        /\ min_rating = None \/ r.rating >= Val(min_rating)}
             rank == [x \in hits |->
                        Cardinality({y \in hits : ByRatingKey(y, x)})]
         IN  Ok(Paginate(SortedSeq(hits, rank), skip, limit))

helpers_get_tag(db, user_id, movie_id, tag_text) ==
    LET hit(t) == t.userId = user_id /\ t.movieId = movie_id /\ t.tag = tag_text
    IN  IF \E t \in db.tags : hit(t)
        THEN Some(CHOOSE t \in db.tags : hit(t))
        ELSE None

helpers_get_tags(db, skip, limit, movie_id, user_id) ==
    IF ~PageArgsOk(skip, limit) THEN InvalidInput
    ELSE LET hits == {t \in db.tags :
                        /\ movie_id = None \/ t.movieId = Val(movie_id)
                        /\ user_id = None \/ t.userId = Val(user_id)}
             rank == [x \in hits |-> Cardinality({y \in hits : ByTagKey(y, x)})]
         IN  Ok(Paginate(SortedSeq(hits, rank), skip, limit))

helpers_get_link(db, movie_id) ==
    IF \E l \in db.links : l.movieId = movie_id
    THEN Some(CHOOSE l \in db.links : l.movieId = movie_id)
    ELSE None

helpers_get_links(db, skip, limit) ==
    IF ~PageArgsOk(skip, limit) THEN InvalidInput
    ELSE LET rank == [x \in db.links |->
                        Cardinality({y \in db.links : ByMovieId(y, x)})]
         IN  Ok(Paginate(SortedSeq(db.links, rank), skip, limit))

helpers_get_movie_count(db)  == Cardinality(db.movies)
helpers_get_rating_count(db) == Cardinality(db.ratings)
helpers_get_tag_count(db)    == Cardinality(db.tags)
helpers_get_link_count(db)   == Cardinality(db.links)

----------------------------------------------------------------------------
(* query_helpers: aggregation *)

RatingsOf(db, movie_id) == {r \in db.ratings : r.movieId = movie_id}

RECURSIVE SumRatings(_)
SumRatings(R) ==
    IF R = {} THEN 0
    ELSE LET r == CHOOSE x \in R : TRUE IN r.rating + SumRatings(R \ {r})

qh_get_movie_rating_count(db, movie_id) == Cardinality(RatingsOf(db, movie_id))

(* the mean as the fraction num/den of half stars; None without ratings *)
qh_get_movie_average_rating(db, movie_id) ==
    LET R == RatingsOf(db, movie_id)
    IN  IF R = {} THEN None
        ELSE Some([num |-> SumRatings(R), den |-> Cardinality(R)])

(* a >= threshold, for a defined mean a *)
AvgAtLeast(a, threshold) == a.num >= threshold * a.den

(* mean a strictly above mean b *)
AvgGreater(a, b) == a.num * b.den > b.num * a.den

TagCount(db, text) == Cardinality({t \in db.tags : t.tag = text})

ByPopularity(db, a, b) ==
    \/ TagCount(db, a) > TagCount(db, b)
    \/ TagCount(db, a) = TagCount(db, b) /\ StrLess(a, b)

qh_get_popular_tags(db, limit) ==
    IF limit < 0 THEN InvalidInput
    ELSE LET texts  == {t.tag : t \in db.tags}
             rank   == [x \in texts |->
                          Cardinality({y \in texts : ByPopularity(db, y, x)})]
             ranked == SortedSeq(texts, rank)
             top    == Paginate(ranked, 0, limit)
         IN  Ok([i \in 1..Len(top) |-> <<top[i], TagCount(db, top[i])>>])

(* advanced search: title/genre filter over Movie, then the thresholds on  *)
(* the per-movie aggregates, then the limit                                 *)
PassesThresholds(db, m, min_rating, min_rating_count) ==
    /\ min_rating = None
       \/ /\ qh_get_movie_average_rating(db, m.movieId) # None
          /\ AvgAtLeast(Val(qh_get_movie_average_rating(db, m.movieId)),
                        Val(min_rating))
    /\ min_rating_count = None
       \/ qh_get_movie_rating_count(db, m.movieId) >= Val(min_rating_count)

qh_search_movies(db, title, genre, min_rating, min_rating_count, limit) ==
    IF limit < 0 \/ ~RatingArgOk(min_rating) THEN InvalidInput
    ELSE LET hits == {m \in db.movies :
                        /\ TitleMatch(m, title)
                        /\ GenreMatch(m, genre)
                        /\ PassesThresholds(db, m, min_rating,
                                            min_rating_count)}
             rank == [x \in hits |-> Cardinality({y \in hits : ByMovieId(y, x)})]
         IN  Ok(Paginate(SortedSeq(hits, rank), 0, limit))

----------------------------------------------------------------------------
(* query_helpers: similarity and recommendation *)

GenresOfMovie(db, movie_id) ==
    IF helpers_get_movie(db, movie_id) = None THEN {}
    ELSE GenreSet(Val(helpers_get_movie(db, movie_id)).genres)

(* genre overlap score of movie m against the reference genre set *)
Overlap(m, refGenres) == Cardinality(GenreSet(m.genres) \cap refGenres)

BySimilarity(db, refGenres, a, b) ==
    \/ Overlap(a, refGenres) > Overlap(b, refGenres)
    \/ /\ Overlap(a, refGenres) = Overlap(b, refGenres)
       /\ \/ qh_get_movie_rating_count(db, a.movieId)
               > qh_get_movie_rating_count(db, b.movieId)
          \/ /\ qh_get_movie_rating_count(db, a.movieId)
                  = qh_get_movie_rating_count(db, b.movieId)
             /\ a.movieId < b.movieId

qh_get_similar_movies(db, movie_id, limit) ==
    IF limit < 0 THEN InvalidInput
    ELSE LET refGenres == GenresOfMovie(db, movie_id)
             cands == {m \in db.movies :
                         m.movieId # movie_id /\ Overlap(m, refGenres) >= 1}
             rank == [x \in cands |->
                        Cardinality({y \in cands :
                                       BySimilarity(db, refGenres, y, x)})]
         IN  Ok(Paginate(SortedSeq(cands, rank), 0, limit))

UserRatings(db, user_id) == {r \in db.ratings : r.userId = user_id}

LikedRatings(db, user_id) ==
    {r \in UserRatings(db, user_id) : r.rating >= LIKED_THRESHOLD}

(* sum, over the genres of m, of the number of liked movies with that genre *)
RecoScore(db, user_id, m) ==
    Cardinality({p \in LikedRatings(db, user_id) \X GenreSet(m.genres) :
                   p[2] \in GenresOfMovie(db, p[1].movieId)})

(* a movie without ratings ranks below every movie that has a mean *)
AvgRanksHigher(db, a, b) ==
    LET x == qh_get_movie_average_rating(db, a.movieId)
        y == qh_get_movie_average_rating(db, b.movieId)
    IN  /\ x # None
        /\ y = None \/ AvgGreater(Val(x), Val(y))

AvgTies(db, a, b) == ~AvgRanksHigher(db, a, b) /\ ~AvgRanksHigher(db, b, a)

ByRecoRank(db, user_id, a, b) ==
    \/ RecoScore(db, user_id, a) > RecoScore(db, user_id, b)
    \/ /\ RecoScore(db, user_id, a) = RecoScore(db, user_id, b)
       /\ \/ AvgRanksHigher(db, a, b)
          \/ AvgTies(db, a, b) /\ a.movieId < b.movieId

qh_get_user_recommendations(db, user_id, limit) ==
    IF limit < 0 THEN InvalidInput
    ELSE IF LikedRatings(db, user_id) = {} THEN Ok(<<>>)
    ELSE LET rated == {r.movieId : r \in UserRatings(db, user_id)}
             cands == {m \in db.movies : m.movieId \notin rated}
             rank == [x \in cands |->
                        Cardinality({y \in cands :
                                       ByRecoRank(db, user_id, y, x)})]
         IN  Ok(Paginate(SortedSeq(cands, rank), 0, limit))

----------------------------------------------------------------------------
(* Requests and responses *)

(* a request: the endpoint and the raw path/query parameters *)
NoReq ==
    [ep |-> "", skip |-> 0, limit |-> 0, title |-> None, genre |-> None,
     movie_id |-> None, user_id |-> None, min_rating |-> None,
     min_rating_count |-> None, tag_text |-> <<>>]

(* a call into query_helpers: the function and the arguments it is given *)
NoArgs ==
    [fn |-> "", skip |-> 0, limit |-> 0, title |-> None, genre |-> None,
     movie_id |-> None, user_id |-> None, min_rating |-> None,
     min_rating_count |-> None, tag_text |-> <<>>]

NoResp == [status |-> 0, body |-> <<>>]

R200(body) == [status |-> 200, body |-> body]
R404 == [status |-> 404, body |-> <<>>]
R422 == [status |-> 422, body |-> <<>>]
R500 == [status |-> 500, body |-> <<>>]

(* what handling a request produces: the response and the core calls made *)
Out(r, cs) == [resp |-> r, calls |-> cs]

Rejected == Out(R422, <<>>)

(* a list result of the core passed through by a handler *)
PassList(res, cs) == Out(IF res.err THEN R500 ELSE R200(res.val), cs)

(* "if not results: raise HTTPException(404)" on a list result of the core *)
ListOr404(res, cs) ==
    Out(IF res.err THEN R500
        ELSE IF res.val = <<>> THEN R404
        ELSE R200(res.val), cs)

(* Query(..., ge=lo, le=hi); an absent bound is None *)
QueryOk(v, lo, hi) ==
    /\ lo = None \/ v >= Val(lo)
    /\ hi = None \/ v <= Val(hi)

OptQueryOk(o, lo, hi) == o = None \/ QueryOk(Val(o), lo, hi)

(* the core operation a call record names, applied to its arguments *)
Invoke(db, c) ==
    CASE c.fn = "helpers.get_movie" -> helpers_get_movie(db, Val(c.movie_id))
      [] c.fn = "helpers.get_movies" ->
            helpers_get_movies(db, c.skip, c.limit, c.title, c.genre)
      [] c.fn = "helpers.get_rating" ->
            helpers_get_rating(db, Val(c.user_id), Val(c.movie_id))
      [] c.fn = "helpers.get_ratings" ->
            helpers_get_ratings(db, c.skip, c.limit, c.movie_id, c.user_id,
                                c.min_rating)
      [] c.fn = "helpers.get_tag" ->
            helpers_get_tag(db, Val(c.user_id), Val(c.movie_id), c.tag_text)
      [] c.fn = "helpers.get_tags" ->
            helpers_get_tags(db, c.skip, c.limit, c.movie_id, c.user_id)
      [] c.fn = "helpers.get_link" -> helpers_get_link(db, Val(c.movie_id))
      [] c.fn = "helpers.get_links" -> helpers_get_links(db, c.skip, c.limit)
      [] c.fn = "helpers.get_movie_count" -> helpers_get_movie_count(db)
      [] c.fn = "helpers.get_rating_count" -> helpers_get_rating_count(db)
      [] c.fn = "helpers.get_tag_count" -> helpers_get_tag_count(db)
      [] c.fn = "helpers.get_link_count" -> helpers_get_link_count(db)
      [] c.fn = "qh.get_all_movies" -> qh_get_all_movies(db, c.skip, c.limit)
      [] c.fn = "qh.get_movies_by_title" ->
            qh_get_movies_by_title(db, Val(c.title))
      [] c.fn = "qh.search_movies" ->
            qh_search_movies(db, c.title, c.genre, c.min_rating,
                             c.min_rating_count, c.limit)
      [] c.fn = "qh.get_similar_movies" ->
            qh_get_similar_movies(db, Val(c.movie_id), c.limit)
      [] c.fn = "qh.get_movie_average_rating" ->
            qh_get_movie_average_rating(db, Val(c.movie_id))
      [] c.fn = "qh.get_movie_rating_count" ->
            qh_get_movie_rating_count(db, Val(c.movie_id))
      [] c.fn = "qh.get_user_recommendations" ->
            qh_get_user_recommendations(db, Val(c.user_id), c.limit)
      [] c.fn = "qh.get_popular_tags" -> qh_get_popular_tags(db, c.limit)

----------------------------------------------------------------------------
(* api/main.py: route handlers *)

read_movie(db, q) ==
    LET c == [NoArgs EXCEPT !.fn = "helpers.get_movie", !.movie_id = q.movie_id]
        movie == Invoke(db, c)
    IN  IF movie = None THEN Out(R404, <<c>>) ELSE Out(R200(Val(movie)), <<c>>)

(* an empty list answered with 404, as the search endpoints do *)
list_movies_or_404(db, q) ==
    IF ~(QueryOk(q.skip, Some(0), None)
         /\ QueryOk(q.limit, None, Some(LIST_LIMIT_CAP)))
    THEN Rejected
    ELSE LET c == [NoArgs EXCEPT !.fn = "helpers.get_movies",
                                 !.skip = q.skip, !.limit = q.limit,
                                 !.title = q.title, !.genre = q.genre]
         IN  ListOr404(Invoke(db, c), <<c>>)

(* skip and limit handed over in each other's place *)
list_movies_swapped(db, q) ==
    IF ~(QueryOk(q.skip, Some(0), None)
         /\ QueryOk(q.limit, None, Some(LIST_LIMIT_CAP)))
    THEN Rejected
    ELSE LET c == [NoArgs EXCEPT !.fn = "helpers.get_movies",
                                 !.skip = q.limit, !.limit = q.skip,
                                 !.title = q.title, !.genre = q.genre]
         IN  PassList(Invoke(db, c), <<c>>)

list_movies(db, q) ==
    IF ~(QueryOk(q.skip, Some(0), None)
         /\ QueryOk(q.limit, None, Some(LIST_LIMIT_CAP)))
    THEN Rejected
    ELSE LET c == [NoArgs EXCEPT !.fn = "helpers.get_movies",
                                 !.skip = q.skip, !.limit = q.limit,
                                 !.title = q.title, !.genre = q.genre]
         IN  PassList(Invoke(db, c), <<c>>)

read_rating(db, q) ==
    LET c == [NoArgs EXCEPT !.fn = "helpers.get_rating",
                            !.user_id = q.user_id, !.movie_id = q.movie_id]
        rating == Invoke(db, c)
    IN  IF rating = None THEN Out(R404, <<c>>)
        ELSE Out(R200(Val(rating)), <<c>>)

list_ratings(db, q) ==
    IF ~(QueryOk(q.skip, Some(0), None)
         /\ QueryOk(q.limit, None, Some(LIST_LIMIT_CAP))
         /\ OptQueryOk(q.min_rating, Some(0), Some(RATING_MAX)))
    THEN Rejected
    ELSE LET c == [NoArgs EXCEPT !.fn = "helpers.get_ratings",
                                 !.skip = q.skip, !.limit = q.limit,
                                 !.movie_id = q.movie_id,
                                 !.user_id = q.user_id,
                                 !.min_rating = q.min_rating]
         IN  PassList(Invoke(db, c), <<c>>)

read_tag(db, q) ==
    LET c == [NoArgs EXCEPT !.fn = "helpers.get_tag",
                            !.user_id = q.user_id, !.movie_id = q.movie_id,
                            !.tag_text = q.tag_text]
        result == Invoke(db, c)
    IN  IF result = None THEN Out(R404, <<c>>)
        ELSE Out(R200(Val(result)), <<c>>)

list_tags(db, q) ==
    IF ~(QueryOk(q.skip, Some(0), None)
         /\ QueryOk(q.limit, None, Some(LIST_LIMIT_CAP)))
    THEN Rejected
    ELSE LET c == [NoArgs EXCEPT !.fn = "helpers.get_tags",
                                 !.skip = q.skip, !.limit = q.limit,
                                 !.movie_id = q.movie_id,
                                 !.user_id = q.user_id]
         IN  PassList(Invoke(db, c), <<c>>)

read_link(db, q) ==
    LET c == [NoArgs EXCEPT !.fn = "helpers.get_link", !.movie_id = q.movie_id]
        result == Invoke(db, c)
    IN  IF result = None THEN Out(R404, <<c>>)
        ELSE Out(R200(Val(result)), <<c>>)

list_links(db, q) ==
    IF ~(QueryOk(q.skip, Some(0), None)
         /\ QueryOk(q.limit, None, Some(LIST_LIMIT_CAP)))
    THEN Rejected
    ELSE LET c == [NoArgs EXCEPT !.fn = "helpers.get_links",
                                 !.skip = q.skip, !.limit = q.limit]
         IN  PassList(Invoke(db, c), <<c>>)

get_analytics(db, q) ==
    LET c1 == [NoArgs EXCEPT !.fn = "helpers.get_movie_count"]
        c2 == [NoArgs EXCEPT !.fn = "helpers.get_rating_count"]
        c3 == [NoArgs EXCEPT !.fn = "helpers.get_tag_count"]
        c4 == [NoArgs EXCEPT !.fn = "helpers.get_link_count"]
    IN  Out(R200([movie_count |-> Invoke(db, c1),
                  rating_count |-> Invoke(db, c2),
                  tag_count |-> Invoke(db, c3),
                  link_count |-> Invoke(db, c4)]),
            <<c1, c2, c3, c4>>)

----------------------------------------------------------------------------
(* test_main.py: route handlers *)

get_movies(db, q) ==
    IF ~(QueryOk(q.skip, Some(0), None)
         /\ QueryOk(q.limit, Some(1), Some(MOVIES_LIMIT_CAP)))
    THEN Rejected
    ELSE LET c == [NoArgs EXCEPT !.fn = "qh.get_all_movies",
                                 !.skip = q.skip, !.limit = q.limit]
         IN  PassList(Invoke(db, c), <<c>>)

search_by_title(db, q) ==
    IF q.title = None \/ Len(Val(q.title)) < 1
    THEN Rejected
    ELSE LET c == [NoArgs EXCEPT !.fn = "qh.get_movies_by_title",
                                 !.title = q.title]
         IN  ListOr404(Ok(Invoke(db, c)), <<c>>)

(* min_rating handed over as min_rating_count and the reverse *)
advanced_search_swapped(db, q) ==
    IF ~(OptQueryOk(q.min_rating, Some(0), Some(RATING_MAX))
         /\ OptQueryOk(q.min_rating_count, Some(1), None)
         /\ QueryOk(q.limit, Some(1), Some(SEARCH_LIMIT_CAP)))
    THEN Rejected
    ELSE LET c == [NoArgs EXCEPT !.fn = "qh.search_movies",
                                 !.title = q.title, !.genre = q.genre,
                                 !.min_rating = q.min_rating_count,
                                 !.min_rating_count = q.min_rating,
                                 !.limit = q.limit]
         IN  ListOr404(Invoke(db, c), <<c>>)

advanced_search(db, q) ==
    IF ~(OptQueryOk(q.min_rating, Some(0), Some(RATING_MAX))
         /\ OptQueryOk(q.min_rating_count, Some(1), None)
         /\ QueryOk(q.limit, Some(1), Some(SEARCH_LIMIT_CAP)))
    THEN Rejected
    ELSE LET c == [NoArgs EXCEPT !.fn = "qh.search_movies",
                                 !.title = q.title, !.genre = q.genre,
                                 !.min_rating = q.min_rating,
                                 !.min_rating_count = q.min_rating_count,
                                 !.limit = q.limit]
         IN  ListOr404(Invoke(db, c), <<c>>)

(* movie_id and limit handed over in each other's place *)
get_similar_movies_swapped(db, q) ==
    IF ~QueryOk(q.limit, Some(1), Some(SIMILAR_LIMIT_CAP))
    THEN Rejected
    ELSE LET c == [NoArgs EXCEPT !.fn = "qh.get_similar_movies",
                                 !.movie_id = Some(q.limit),
                                 !.limit = Val(q.movie_id)]
         IN  ListOr404(Invoke(db, c), <<c>>)

(* the similar movies put back into movieId order before they are returned *)
get_similar_movies_by_id(db, q) ==
    IF ~QueryOk(q.limit, Some(1), Some(SIMILAR_LIMIT_CAP))
    THEN Rejected
    ELSE LET c == [NoArgs EXCEPT !.fn = "qh.get_similar_movies",
                                 !.movie_id = q.movie_id, !.limit = q.limit]
             res == Invoke(db, c)
             S == {res.val[i] : i \in 1..Len(res.val)}
             rank == [x \in S |-> Cardinality({y \in S : ByMovieId(y, x)})]
         IN  ListOr404(Ok(SortedSeq(S, rank)), <<c>>)

get_similar_movies(db, q) ==
    IF ~QueryOk(q.limit, Some(1), Some(SIMILAR_LIMIT_CAP))
    THEN Rejected
    ELSE LET c == [NoArgs EXCEPT !.fn = "qh.get_similar_movies",
                                 !.movie_id = q.movie_id, !.limit = q.limit]
         IN  ListOr404(Invoke(db, c), <<c>>)

(* "if not avg_rating" instead of "if avg_rating is None" *)
get_average_rating_falsy(db, q) ==
    LET c1 == [NoArgs EXCEPT !.fn = "qh.get_movie_average_rating",
                             !.movie_id = q.movie_id]
        c2 == [NoArgs EXCEPT !.fn = "qh.get_movie_rating_count",
                             !.movie_id = q.movie_id]
        avg_rating == Invoke(db, c1)
    IN  IF avg_rating = None \/ Val(avg_rating).num = 0 THEN Out(R404, <<c1>>)
        ELSE Out(R200([movie_id |-> Val(q.movie_id),
                       average_rating |-> Val(avg_rating),
                       rating_count |-> Invoke(db, c2)]),
                 <<c1, c2>>)

get_average_rating(db, q) ==
    LET c1 == [NoArgs EXCEPT !.fn = "qh.get_movie_average_rating",
                             !.movie_id = q.movie_id]
        c2 == [NoArgs EXCEPT !.fn = "qh.get_movie_rating_count",
                             !.movie_id = q.movie_id]
        avg_rating == Invoke(db, c1)
    IN  IF avg_rating = None THEN Out(R404, <<c1>>)
        ELSE Out(R200([movie_id |-> Val(q.movie_id),
                       average_rating |-> Val(avg_rating),
                       rating_count |-> Invoke(db, c2)]),
                 <<c1, c2>>)

(* an empty list answered with 404, as the neighbouring endpoints do *)
get_recommendations_or_404(db, q) ==
    IF ~QueryOk(q.limit, Some(1), Some(RECO_LIMIT_CAP))
    THEN Rejected
    ELSE LET c == [NoArgs EXCEPT !.fn = "qh.get_user_recommendations",
                                 !.user_id = q.user_id, !.limit = q.limit]
         IN  ListOr404(Invoke(db, c), <<c>>)

(* user_id and limit handed over in each other's place *)
get_recommendations_swapped(db, q) ==
    IF ~QueryOk(q.limit, Some(1), Some(RECO_LIMIT_CAP))
    THEN Rejected
    ELSE LET c == [NoArgs EXCEPT !.fn = "qh.get_user_recommendations",
                                 !.user_id = Some(q.limit),
                                 !.limit = Val(q.user_id)]
         IN  PassList(Invoke(db, c), <<c>>)

(* the recommendations put back into movieId order before they are returned *)
get_recommendations_by_id(db, q) ==
    IF ~QueryOk(q.limit, Some(1), Some(RECO_LIMIT_CAP))
    THEN Rejected
    ELSE LET c == [NoArgs EXCEPT !.fn = "qh.get_user_recommendations",
                                 !.user_id = q.user_id, !.limit = q.limit]
             res == Invoke(db, c)
             S == {res.val[i] : i \in 1..Len(res.val)}
             rank == [x \in S |-> Cardinality({y \in S : ByMovieId(y, x)})]
         IN  PassList(Ok(SortedSeq(S, rank)), <<c>>)

get_recommendations(db, q) ==
    IF ~QueryOk(q.limit, Some(1), Some(RECO_LIMIT_CAP))
    THEN Rejected
    ELSE LET c == [NoArgs EXCEPT !.fn = "qh.get_user_recommendations",
                                 !.user_id = q.user_id, !.limit = q.limit]
         IN  PassList(Invoke(db, c), <<c>>)

(* one tag more than asked for is requested from the core *)
get_popular_tags_one_more(db, q) ==
    IF ~QueryOk(q.limit, Some(1), Some(TAGS_LIMIT_CAP))
    THEN Rejected
    ELSE LET c == [NoArgs EXCEPT !.fn = "qh.get_popular_tags",
                                 !.limit = q.limit + 1]
             popular_tags == Invoke(db, c)
         IN  IF popular_tags.err THEN Out(R500, <<c>>)
             ELSE Out(R200([i \in 1..Len(popular_tags.val) |->
                              [tag |-> popular_tags.val[i][1],
                               count |-> popular_tags.val[i][2]]]),
                      <<c>>)

get_popular_tags(db, q) ==
    IF ~QueryOk(q.limit, Some(1), Some(TAGS_LIMIT_CAP))
    THEN Rejected
    ELSE LET c == [NoArgs EXCEPT !.fn = "qh.get_popular_tags",
                                 !.limit = q.limit]
             popular_tags == Invoke(db, c)
         IN  IF popular_tags.err THEN Out(R500, <<c>>)
             ELSE Out(R200([i \in 1..Len(popular_tags.val) |->
                              [tag |-> popular_tags.val[i][1],
                               count |-> popular_tags.val[i][2]]]),
                      <<c>>)

----------------------------------------------------------------------------
(* The requests the model sends *)

SkipIn == (-1)..MaxSkip

(* limits below, inside and above an endpoint's cap *)
LimitIn(cap) == ((-1)..MaxLimit) \cup {cap + 1}

MovieIds == 1..MaxMovieId
UserIds == 1..MaxUserId

Q_ab == Some(<<"A", "B">>)
Q_z  == Some(<<"z">>)
Q_co == Some(<<"c", "o">>)

MovieFilters == { <<None, None>>, <<Q_ab, None>>, <<None, Q_co>>, <<Q_z, None>> }

RatingFilters ==
    { <<None, None, None>>, <<Some(1), None, None>>, <<None, Some(1), Some(8)>>,
      <<None, None, Some(-1)>>, <<None, None, Some(RATING_MAX + 1)>> }

TagFilters == { <<None, None>>, <<Some(1), None>>, <<None, Some(2)>> }

ListLimits == {-1, MaxLimit, LIST_LIMIT_CAP + 1}

Requests ==
    { [NoReq EXCEPT !.ep = "read_movie", !.movie_id = Some(m)] : m \in MovieIds }
    \cup
    { [NoReq EXCEPT !.ep = "list_movies", !.skip = s, !.limit = l,
                    !.title = f[1], !.genre = f[2]] :
        s \in SkipIn, l \in LimitIn(LIST_LIMIT_CAP), f \in MovieFilters }
    \cup
    { [NoReq EXCEPT !.ep = "read_rating", !.user_id = Some(u),
                    !.movie_id = Some(m)] : u \in UserIds, m \in MovieIds }
    \cup
    { [NoReq EXCEPT !.ep = "list_ratings", !.skip = s, !.limit = l,
                    !.movie_id = f[1], !.user_id = f[2], !.min_rating = f[3]] :
        s \in SkipIn, l \in ListLimits, f \in RatingFilters }
    \cup
    { [NoReq EXCEPT !.ep = "read_tag", !.user_id = Some(u),
                    !.movie_id = Some(m), !.tag_text = t] :
        u \in UserIds, m \in MovieIds, t \in {Tag_fun, Tag_Fun} }
    \cup
    { [NoReq EXCEPT !.ep = "list_tags", !.skip = s, !.limit = l,
                    !.movie_id = f[1], !.user_id = f[2]] :
        s \in SkipIn, l \in ListLimits, f \in TagFilters }
    \cup
    { [NoReq EXCEPT !.ep = "read_link", !.movie_id = Some(m)] : m \in MovieIds }
    \cup
    { [NoReq EXCEPT !.ep = "list_links", !.skip = s, !.limit = l] :
        s \in SkipIn, l \in ListLimits }
    \cup
    { [NoReq EXCEPT !.ep = "get_analytics"] }
    \cup
    { [NoReq EXCEPT !.ep = "get_movies", !.skip = s, !.limit = l] :
        s \in SkipIn, l \in LimitIn(MOVIES_LIMIT_CAP) }
    \cup
    { [NoReq EXCEPT !.ep = "search_by_title", !.title = t] :
        t \in {Q_ab, Q_z, Some(<<>>)} }
    \cup
    { [NoReq EXCEPT !.ep = "advanced_search", !.title = f[1], !.genre = f[2],
                    !.min_rating = a, !.min_rating_count = n, !.limit = l] :
        f \in {<<None, None>>, <<Q_ab, Q_co>>},
        a \in {None, Some(0), Some(8)},
        n \in {None, Some(1), Some(2)},
        l \in {1, MaxLimit} }
    \cup
    { [NoReq EXCEPT !.ep = "advanced_search", !.min_rating = x[1],
                    !.min_rating_count = x[2], !.limit = x[3]] :
        x \in { <<Some(RATING_MAX + 1), None, 1>>, <<None, Some(0), 1>>,
                <<None, None, 0>>, <<None, None, SEARCH_LIMIT_CAP + 1>> } }
    \cup
    { [NoReq EXCEPT !.ep = "get_similar_movies", !.movie_id = Some(m),
                    !.limit = l] :
        m \in MovieIds,
        l \in (0..MaxLimit) \cup {SIMILAR_LIMIT_DEFAULT, SIMILAR_LIMIT_CAP + 1} }
    \cup
    { [NoReq EXCEPT !.ep = "get_average_rating", !.movie_id = Some(m)] :
        m \in MovieIds }
    \cup
    { [NoReq EXCEPT !.ep = "get_recommendations", !.user_id = Some(u),
                    !.limit = l] :
        u \in UserIds, l \in (0..MaxLimit) \cup {RECO_LIMIT_CAP + 1} }
    \cup
    { [NoReq EXCEPT !.ep = "get_popular_tags", !.limit = l] :
        l \in (0..MaxLimit) \cup {TAGS_LIMIT_CAP + 1} }

----------------------------------------------------------------------------
(* State machine *)

Slots == {1}

CurrentDB == DB(movies, ratings, tags, links)

(* a session object: its state and how often close() was called on it *)
NoSession == [state |-> "none", closes |-> 0]

(* the session object SessionLocal() returns: one that is neither open nor *)
(* referred to by a request                                                 *)
FreshSessions ==
    {id \in DOMAIN session :
       session[id].state # "open" /\ \A r \in DOMAIN handle : handle[r] # id}

SessionLocal == CHOOSE id \in FreshSessions : \A other \in FreshSessions : id <= other

(* the data store holds one of the datasets DS; the slots S are idle *)
InitOn(S, DS) ==
    /\ \E d \in DS :
          /\ movies = d.movies
          /\ ratings = d.ratings
          /\ tags = d.tags
          /\ links = d.links
          /\ db0 = d
    /\ pc = [r \in S |-> "idle"]
    /\ req = [r \in S |-> NoReq]
    /\ resp = [r \in S |-> NoResp]
    /\ calls = [r \in S |-> <<>>]
    /\ session = [id \in S |-> NoSession]
    /\ handle = [r \in S |-> 0]

Init == InitOn(Slots, {x \in Datasets : WellFormed(x)})

(* get_db up to its yield: a request arrives and gets a fresh session *)
get_db(r, q) ==
    /\ pc[r] = "idle"
    /\ FreshSessions # {}
    /\ req' = [req EXCEPT ![r] = q]
    /\ session' = [session EXCEPT ![SessionLocal] = [state |-> "open", closes |-> 0]]
    /\ handle' = [handle EXCEPT ![r] = SessionLocal]
    /\ pc' = [pc EXCEPT ![r] = "handling"]
    /\ resp' = [resp EXCEPT ![r] = NoResp]
    /\ calls' = [calls EXCEPT ![r] = <<>>]
    /\ UNCHANGED <<movies, ratings, tags, links, db0>>

(* the route handler of endpoint ep runs on the request of slot r *)
Handle(r, ep, out) ==
    /\ pc[r] = "handling"
    /\ req[r].ep = ep
    /\ resp' = [resp EXCEPT ![r] = out.resp]
    /\ calls' = [calls EXCEPT ![r] = out.calls]
    /\ pc' = [pc EXCEPT ![r] = "responded"]
    /\ UNCHANGED <<movies, ratings, tags, links, db0, req, session, handle>>

(* a handler that deletes the row it has looked up and commits *)
Do_read_movie_deleting(r) ==
    /\ pc[r] = "handling"
    /\ req[r].ep = "read_movie"
    /\ resp' = [resp EXCEPT ![r] = read_movie(CurrentDB, req[r]).resp]
    /\ calls' = [calls EXCEPT ![r] = read_movie(CurrentDB, req[r]).calls]
    /\ pc' = [pc EXCEPT ![r] = "responded"]
    /\ movies' = {m \in movies : m.movieId # Val(req[r].movie_id)}
    /\ UNCHANGED <<ratings, tags, links, db0, req, session, handle>>

Do_read_movie(r)    == Handle(r, "read_movie", read_movie(CurrentDB, req[r]))
Do_list_movies(r)   == Handle(r, "list_movies", list_movies(CurrentDB, req[r]))
Do_read_rating(r)   == Handle(r, "read_rating", read_rating(CurrentDB, req[r]))
Do_list_ratings(r)  == Handle(r, "list_ratings", list_ratings(CurrentDB, req[r]))
Do_read_tag(r)      == Handle(r, "read_tag", read_tag(CurrentDB, req[r]))
Do_list_tags(r)     == Handle(r, "list_tags", list_tags(CurrentDB, req[r]))
Do_read_link(r)     == Handle(r, "read_link", read_link(CurrentDB, req[r]))
Do_list_links(r)    == Handle(r, "list_links", list_links(CurrentDB, req[r]))
Do_get_analytics(r) == Handle(r, "get_analytics", get_analytics(CurrentDB, req[r]))
Do_get_movies(r)    == Handle(r, "get_movies", get_movies(CurrentDB, req[r]))
Do_search_by_title(r) ==
    Handle(r, "search_by_title", search_by_title(CurrentDB, req[r]))
Do_advanced_search(r) ==
    Handle(r, "advanced_search", advanced_search(CurrentDB, req[r]))
Do_get_similar_movies(r) ==
    Handle(r, "get_similar_movies", get_similar_movies(CurrentDB, req[r]))
Do_get_average_rating(r) ==
    Handle(r, "get_average_rating", get_average_rating(CurrentDB, req[r]))
Do_get_recommendations(r) ==
    Handle(r, "get_recommendations", get_recommendations(CurrentDB, req[r]))
Do_get_popular_tags(r) ==
    Handle(r, "get_popular_tags", get_popular_tags(CurrentDB, req[r]))

(* get_db without try/finally: a 404 raised by the handler skips close() *)
get_db_close_no_finally(r) ==
    /\ pc[r] = "responded"
    /\ session' = IF resp[r].status = 404 THEN session
                  ELSE [session EXCEPT ![handle[r]] =
                          [state |-> "closed", closes |-> @.closes + 1]]
    /\ handle' = [handle EXCEPT ![r] = 0]
    /\ pc' = [pc EXCEPT ![r] = "idle"]
    /\ req' = [req EXCEPT ![r] = NoReq]
    /\ resp' = [resp EXCEPT ![r] = NoResp]
    /\ calls' = [calls EXCEPT ![r] = <<>>]
    /\ UNCHANGED <<movies, ratings, tags, links, db0>>

(* get_db after its yield: the finally clause closes the session *)
get_db_close(r) ==
    /\ pc[r] = "responded"
    /\ session' = [session EXCEPT ![handle[r]] =
                      [state |-> "closed", closes |-> @.closes + 1]]
    /\ handle' = [handle EXCEPT ![r] = 0]
    /\ pc' = [pc EXCEPT ![r] = "idle"]
    /\ req' = [req EXCEPT ![r] = NoReq]
    /\ resp' = [resp EXCEPT ![r] = NoResp]
    /\ calls' = [calls EXCEPT ![r] = <<>>]
    /\ UNCHANGED <<movies, ratings, tags, links, db0>>

(* one step of the request in slot r, its request drawn from Q *)
Step(r, Q) ==
    \/ \E q \in Q : get_db(r, q)
    \/ Do_read_movie(r)
    \/ Do_list_movies(r)
    \/ Do_read_rating(r)
    \/ Do_list_ratings(r)
    \/ Do_read_tag(r)
    \/ Do_list_tags(r)
    \/ Do_read_link(r)
    \/ Do_list_links(r)
    \/ Do_get_analytics(r)
    \/ Do_get_movies(r)
    \/ Do_search_by_title(r)
    \/ Do_advanced_search(r)
    \/ Do_get_similar_movies(r)
    \/ Do_get_average_rating(r)
    \/ Do_get_recommendations(r)
    \/ Do_get_popular_tags(r)
    \/ get_db_close(r)

Next == \E r \in Slots : Step(r, Requests)

Spec == Init /\ [][Next]_vars

(* requests handled concurrently: each slot is a request with its own      *)
(* session, and the steps of different slots interleave                     *)
ConcSlots == 1..MaxConcurrent

ConcDatasets ==
    { DB({}, {}, {}, {}),
      DB(DefaultMovies, {Rating(1, 1, 10), Rating(1, 3, 0)},
         {Tag(1, 1, Tag_fun), Tag(2, 1, Tag_fun), Tag(1, 2, Tag_dud)},
         {Link(1, "tt1")}) }

(* one or two requests for every endpoint *)
ConcRequests ==
    {q \in Requests :
       /\ q.skip = 0
       /\ q.limit \in {0, MaxLimit}
       /\ q.title \in {None, Q_z}
       /\ q.genre = None
       /\ q.movie_id \in {None, Some(1)}
       /\ q.user_id \in {None, Some(1)}
       /\ q.min_rating = None
       /\ q.min_rating_count = None
       /\ q.tag_text \in {<<>>, Tag_fun}}

InitConc == InitOn(ConcSlots, ConcDatasets)

NextConc == \E r \in ConcSlots : Step(r, ConcRequests)

SpecConc == InitConc /\ [][NextConc]_vars

(* session lifecycle of concurrent requests to /movies/{movie_id} and      *)
(* /movies: a request that has arrived is handled and its get_db generator *)
(* is resumed, whatever the other requests do                               *)
SessRequests ==
    {q \in Requests :
       \/ q.ep = "read_movie"
       \/ /\ q.ep = "list_movies"
          /\ q.skip = 0
          /\ q.limit = MaxLimit
          /\ q.title = None
          /\ q.genre = None}

StepSess(r) ==
    \/ \E q \in SessRequests : get_db(r, q)
    \/ Do_read_movie(r)
    \/ Do_list_movies(r)
    \/ get_db_close(r)

NextSess == \E r \in ConcSlots : StepSess(r)

Completes(r) == Do_read_movie(r) \/ Do_list_movies(r) \/ get_db_close(r)

SpecSess ==
    /\ InitConc
    /\ [][NextSess]_vars
    /\ \A r \in ConcSlots : WF_vars(Completes(r))

TypeOK ==
    /\ \A r \in DOMAIN pc : pc[r] \in {"idle", "handling", "responded"}
    /\ \A id \in DOMAIN session :
         session[id].state \in {"none", "open", "closed"}
    /\ \A r \in DOMAIN pc : handle[r] \in {0} \cup DOMAIN session
    /\ WellFormed(CurrentDB)

----------------------------------------------------------------------------
(* Properties *)

(* the request of slot r has been answered by endpoint ep *)
Answered(r, ep) == pc[r] = "responded" /\ req[r].ep = ep

MovieIdsOf(seq) == {seq[i].movieId : i \in 1..Len(seq)}

(* positions [from, to) of seq, counted from 0 *)
Segment(seq, from, to) == SubSeq(seq, from + 1, Min(Len(seq), to))

(* the movies matching the optional title and genre filters *)
Matching(title, genre) ==
    {m \in movies :
       /\ title = None \/ Contains(Lower(m.title), Lower(Val(title)))
       /\ genre = None \/ Contains(Lower(m.genres), Lower(Val(genre)))}

(* seq lists exactly the movies of S, in ascending movieId order *)
IsIdOrdered(seq, S) ==
    /\ {seq[i] : i \in 1..Len(seq)} = S
    /\ \A i, j \in 1..Len(seq) : i < j => seq[i].movieId < seq[j].movieId

(* the answer of the movie list endpoint ep to the request q *)
MoviePage(ep, q) ==
    IF ep = "list_movies" THEN list_movies(CurrentDB, q).resp
    ELSE get_movies(CurrentDB, q).resp

(* C1: for a movie list answered with skip s >= 0 and limit l >= 0, the    *)
(* page and the page asked with skip s+l are the segments [s, s+l) and     *)
(* [s+l, s+2l) of one filtered sequence ordered by movieId: they share no  *)
(* movie, leave no gap, and asking the page again gives the same list.     *)
C1_PaginationSlices ==
    \A r \in DOMAIN pc : \A ep \in {"list_movies", "get_movies"} :
        (Answered(r, ep) /\ resp[r].status = 200
         /\ req[r].skip >= 0 /\ req[r].limit >= 0) =>
        LET q     == req[r]
            s     == q.skip
            l     == q.limit
            full  == FilteredMovies(CurrentDB, q.title, q.genre)
            page1 == resp[r]
            page2 == MoviePage(ep, [q EXCEPT !.skip = s + l])
        IN  /\ IsIdOrdered(full, Matching(q.title, q.genre))
            /\ page1.body = Segment(full, s, s + l)
            /\ page2.status = 200
            /\ page2.body = Segment(full, s + l, s + 2 * l)
            /\ MovieIdsOf(page1.body) \cap MovieIdsOf(page2.body) = {}
            /\ page1.body \o page2.body = Segment(full, s, s + 2 * l)
            /\ MoviePage(ep, q) = page1

C1_Witness ==
    \E r \in DOMAIN pc :
        /\ Answered(r, "list_movies")
        /\ resp[r].status = 200
        /\ req[r].skip = 1 /\ req[r].limit = 1
        /\ req[r].title # None
        /\ Len(resp[r].body) = 1
        /\ Len(MoviePage("list_movies", [req[r] EXCEPT !.skip = 2]).body) = 1

(* the list the core handed to a handler that answers 404 for an empty one *)
ListOf(response) == IF response.status = 404 THEN <<>> ELSE response.body

NoRepeats(seq) == \A i, j \in 1..Len(seq) : seq[i] = seq[j] => i = j

(* the movies other than id that share at least one genre with movie id *)
SharingGenre(id) ==
    {m \in movies :
       /\ m.movieId # id
       /\ \E ref \in movies :
            /\ ref.movieId = id
            /\ GenreSet(m.genres) \cap GenreSet(ref.genres) # {}}

(* C2: similarMovies(id, limit) never contains id itself and returns       *)
(* min(limit, number of other movies sharing a genre with id) movies, all   *)
(* of them sharing a genre with id.                                         *)
C2_SimilarExcludesSelfAndCounts ==
    \A r \in DOMAIN pc :
        (Answered(r, "get_similar_movies") /\ resp[r].status \in {200, 404}) =>
        LET id  == Val(req[r].movie_id)
            out == ListOf(resp[r])
        IN  /\ id \notin MovieIdsOf(out)
            /\ NoRepeats(out)
            /\ Len(out) = Min(req[r].limit, Cardinality(SharingGenre(id)))
            /\ \A i \in 1..Len(out) : out[i] \in SharingGenre(id)

(* fewer movies qualify than the limit, and a movie sharing no genre exists *)
C2_Witness ==
    \E r \in DOMAIN pc :
        /\ Answered(r, "get_similar_movies")
        /\ resp[r].status = 200
        /\ Len(resp[r].body) < req[r].limit
        /\ \E m \in movies :
             /\ m.movieId # Val(req[r].movie_id)
             /\ m \notin SharingGenre(Val(req[r].movie_id))

RatedBy(u) == {x.movieId : x \in {y \in ratings : y.userId = u}}

(* C3: recommendationsForUser(u, limit) contains no movie that u has       *)
(* rated, whatever the rating.                                              *)
C3_RecommendationsExcludeRated ==
    \A r \in DOMAIN pc :
        (Answered(r, "get_recommendations") /\ resp[r].status = 200) =>
        MovieIdsOf(resp[r].body) \cap RatedBy(Val(req[r].user_id)) = {}

(* something is recommended to a user who has a liked and a disliked rating *)
C3_Witness ==
    \E r \in DOMAIN pc :
        /\ Answered(r, "get_recommendations")
        /\ resp[r].status = 200
        /\ resp[r].body # <<>>
        /\ \E x, y \in ratings :
             /\ x.userId = Val(req[r].user_id) /\ x.rating >= LIKED_THRESHOLD
             /\ y.userId = Val(req[r].user_id) /\ y.rating < LIKED_THRESHOLD

RowsWithTag(text) == {t \in tags : t.tag = text}

(* tag a ranks strictly before tag b: more rows, or as many and a smaller  *)
(* text                                                                     *)
RanksBefore(a, b) ==
    \/ Cardinality(RowsWithTag(a)) > Cardinality(RowsWithTag(b))
    \/ /\ Cardinality(RowsWithTag(a)) = Cardinality(RowsWithTag(b))
       /\ StrLess(a, b)

(* C4: popularTags(limit) returns at most limit (tag, count) pairs, each   *)
(* count the number of Tag rows with exactly that text, ordered by count   *)
(* descending then tag ascending, and they are the first limit entries of  *)
(* that order.                                                              *)
C4_PopularTagsRanked ==
    \A r \in DOMAIN pc :
        (Answered(r, "get_popular_tags") /\ resp[r].status = 200) =>
        LET out   == resp[r].body
            texts == {t.tag : t \in tags}
            shown == {out[i].tag : i \in 1..Len(out)}
        IN  /\ Len(out) = Min(req[r].limit, Cardinality(texts))
            /\ shown \subseteq texts
            /\ \A i \in 1..Len(out) :
                 out[i].count = Cardinality(RowsWithTag(out[i].tag))
            /\ \A i, j \in 1..Len(out) :
                 i < j => RanksBefore(out[i].tag, out[j].tag)
            /\ \A a \in shown : \A b \in texts \ shown : RanksBefore(a, b)

(* a tie in count decided by the text, upper case first, and a tag cut off *)
C4_Witness ==
    \E r \in DOMAIN pc :
        /\ Answered(r, "get_popular_tags")
        /\ resp[r].status = 200
        /\ Len(resp[r].body) = 2
        /\ resp[r].body[1].count = resp[r].body[2].count
        /\ resp[r].body[1].tag = Tag_Fun
        /\ Cardinality({t.tag : t \in tags}) > 2

(* C5: the average-rating endpoint answers not-found exactly for movies    *)
(* without Rating rows; every successful answer carries the mean of the    *)
(* movie's ratings and a rating_count >= 1, also when the mean is 0.0.     *)
C5_AverageDefinedIffRated ==
    \A r \in DOMAIN pc :
        Answered(r, "get_average_rating") =>
        LET rows == {x \in ratings : x.movieId = Val(req[r].movie_id)}
        IN  /\ resp[r].status \in {200, 404}
            /\ resp[r].status = 404 <=> rows = {}
            /\ resp[r].status = 200 =>
                 /\ resp[r].body.rating_count = Cardinality(rows)
                 /\ resp[r].body.rating_count >= 1
                 /\ resp[r].body.average_rating.den = Cardinality(rows)
                 /\ resp[r].body.average_rating.num = SumRatings(rows)

(* a movie whose ratings average 0.0 is answered successfully *)
C5_Witness ==
    \E r \in DOMAIN pc :
        /\ Answered(r, "get_average_rating")
        /\ resp[r].status = 200
        /\ resp[r].body.average_rating.num = 0

LookupEndpoints == {"read_movie", "read_rating", "read_tag", "read_link"}

(* endpoints that return the core's list as it is *)
PlainListEndpoints ==
    {"list_movies", "list_ratings", "list_tags", "list_links", "get_movies",
     "get_recommendations", "get_popular_tags"}

(* endpoints that answer 404 when the core's list is empty *)
ListOr404Endpoints == {"search_by_title", "advanced_search", "get_similar_movies"}

(* a row with the key of the single-entity lookup q exists *)
KeyExists(q) ==
    CASE q.ep = "read_movie" -> \E m \in movies : m.movieId = Val(q.movie_id)
      [] q.ep = "read_rating" ->
            \E x \in ratings :
                x.userId = Val(q.user_id) /\ x.movieId = Val(q.movie_id)
      [] q.ep = "read_tag" ->
            \E t \in tags :
                /\ t.userId = Val(q.user_id)
                /\ t.movieId = Val(q.movie_id)
                /\ t.tag = q.tag_text
      [] q.ep = "read_link" -> \E l \in links : l.movieId = Val(q.movie_id)

(* the request was accepted and pages with a non-negative skip and limit *)
Accepted(r) ==
    /\ pc[r] = "responded"
    /\ resp[r].status # 422
    /\ req[r].skip >= 0
    /\ req[r].limit >= 0

LookupsSignalNotFound ==
    \A r \in DOMAIN pc :
        (Accepted(r) /\ req[r].ep \in LookupEndpoints) =>
            /\ resp[r].status = 404 <=> ~KeyExists(req[r])
            /\ resp[r].status = 200 <=> KeyExists(req[r])

ListEndpointCap(ep) ==
    IF ep = "get_movies" THEN MOVIES_LIMIT_CAP ELSE LIST_LIMIT_CAP

PagedEndpoints ==
    {"list_movies", "list_ratings", "list_tags", "list_links", "get_movies"}

RatingInRange(o) == o = None \/ (Val(o) >= 0 /\ Val(o) <= RATING_MAX)

(* C8 as claimed: every call that reaches the core from a list endpoint    *)
(* carries skip >= 0, 0 <= limit <= the endpoint's cap and a rating        *)
(* threshold within [0, 5]; a request outside these ranges is rejected as  *)
(* invalid input without any read of the data store.                        *)
C8_ValidatedBeforeCore ==
    \A r \in DOMAIN pc :
        (pc[r] = "responded" /\ req[r].ep \in PagedEndpoints) =>
            /\ \A i \in 1..Len(calls[r]) :
                 /\ calls[r][i].skip >= 0
                 /\ calls[r][i].limit >= 0
                 /\ calls[r][i].limit <= ListEndpointCap(req[r].ep)
                 /\ RatingInRange(calls[r][i].min_rating)
            /\ ~(/\ req[r].skip >= 0
                 /\ req[r].limit >= 0
                 /\ req[r].limit <= ListEndpointCap(req[r].ep)
                 /\ RatingInRange(req[r].min_rating)) =>
                    (resp[r].status = 422 /\ calls[r] = <<>>)

(* C9: for a user without Rating rows, or with no rating >= 4.0, the       *)
(* recommendations endpoint answers every accepted limit with the empty    *)
(* list, as a normal result.                                                *)
C9_NoLikedNoRecommendations ==
    \A r \in DOMAIN pc :
        (Accepted(r) /\ req[r].ep = "get_recommendations"
         /\ ~\E x \in ratings :
               x.userId = Val(req[r].user_id) /\ x.rating >= LIKED_THRESHOLD) =>
            resp[r] = R200(<<>>)

(* the user has rated, liked nothing, and unrated movies exist *)
C9_Witness ==
    \E r \in DOMAIN pc :
        /\ Answered(r, "get_recommendations")
        /\ resp[r] = R200(<<>>)
        /\ RatedBy(Val(req[r].user_id)) # {}
        /\ \E m \in movies : m.movieId \notin RatedBy(Val(req[r].user_id))

(* the movies satisfying every filter of the advanced search q that is     *)
(* present, the numeric ones on the per-movie aggregates                    *)
SearchHits(q) ==
    {m \in Matching(q.title, q.genre) :
       LET rows == {x \in ratings : x.movieId = m.movieId}
       IN  /\ q.min_rating = None
              \/ /\ rows # {}
                 /\ SumRatings(rows) >= Val(q.min_rating) * Cardinality(rows)
           /\ q.min_rating_count = None
              \/ Cardinality(rows) >= Val(q.min_rating_count)}

(* C10: advanced search returns movies satisfying every present filter     *)
(* (title, genre, average rating >= min_rating, rating count >=            *)
(* min_rating_count), min(limit, number of such movies) of them; with      *)
(* neither numeric filter these are the title/genre matches, rated or not. *)
C10_AdvancedSearchConjunctive ==
    \A r \in DOMAIN pc :
        (Answered(r, "advanced_search") /\ resp[r].status \in {200, 404}) =>
        LET q   == req[r]
            out == ListOf(resp[r])
        IN  /\ NoRepeats(out)
            /\ {out[i] : i \in 1..Len(out)} \subseteq SearchHits(q)
            /\ Len(out) = Min(q.limit, Cardinality(SearchHits(q)))
            /\ (q.min_rating = None /\ q.min_rating_count = None) =>
                 Len(out) = Min(q.limit, Cardinality(Matching(q.title, q.genre)))

(* no numeric filter: a movie without ratings is returned next to a rated  *)
(* one                                                                      *)
C10_Witness ==
    \E r \in DOMAIN pc :
        /\ Answered(r, "advanced_search")
        /\ resp[r].status = 200
        /\ req[r].min_rating = None /\ req[r].min_rating_count = None
        /\ \E i, j \in 1..Len(resp[r].body) :
             /\ ~\E x \in ratings : x.movieId = resp[r].body[i].movieId
             /\ \E x \in ratings : x.movieId = resp[r].body[j].movieId

(* the answer of the endpoint of request q when it runs alone on db *)
AnswerAlone(db, q) ==
    CASE q.ep = "read_movie" -> read_movie(db, q).resp
      [] q.ep = "list_movies" -> list_movies(db, q).resp
      [] q.ep = "read_rating" -> read_rating(db, q).resp
      [] q.ep = "list_ratings" -> list_ratings(db, q).resp
      [] q.ep = "read_tag" -> read_tag(db, q).resp
      [] q.ep = "list_tags" -> list_tags(db, q).resp
      [] q.ep = "read_link" -> read_link(db, q).resp
      [] q.ep = "list_links" -> list_links(db, q).resp
      [] q.ep = "get_analytics" -> get_analytics(db, q).resp
      [] q.ep = "get_movies" -> get_movies(db, q).resp
      [] q.ep = "search_by_title" -> search_by_title(db, q).resp
      [] q.ep = "advanced_search" -> advanced_search(db, q).resp
      [] q.ep = "get_similar_movies" -> get_similar_movies(db, q).resp
      [] q.ep = "get_average_rating" -> get_average_rating(db, q).resp
      [] q.ep = "get_recommendations" -> get_recommendations(db, q).resp
      [] q.ep = "get_popular_tags" -> get_popular_tags(db, q).resp

(* C7: no request, successful or not, changes the Movie, Rating, Tag or    *)
(* Link rows, and every request handled while others are in flight gets    *)
(* the answer it would get alone on the initial dataset.                    *)
C7_ReadOnly ==
    /\ CurrentDB = db0
    /\ \A r \in DOMAIN pc :
         pc[r] = "responded" =>
             /\ resp[r].status = AnswerAlone(db0, req[r]).status
             /\ resp[r].status = 200 =>
                  resp[r].body = AnswerAlone(db0, req[r]).body

(* two requests in flight at once, one answered 404 and one answered 200 *)
C7_Witness ==
    \E r1, r2 \in DOMAIN pc :
        /\ r1 # r2
        /\ pc[r1] = "responded" /\ session[handle[r1]].state = "open"
        /\ pc[r2] = "responded" /\ session[handle[r2]].state = "open"
        /\ resp[r1].status = 404
        /\ resp[r2].status = 200
        /\ movies # {}

(* the number of genres movie m shares with movie id *)
SharedGenres(m, id) ==
    Cardinality({g \in GenreSet(m.genres) :
                   \E ref \in movies : ref.movieId = id /\ g \in GenreSet(ref.genres)})

NumRatings(m) == Cardinality({x \in ratings : x.movieId = m.movieId})

(* a is listed before b among the movies similar to movie id *)
MoreSimilar(a, b, id) ==
    \/ SharedGenres(a, id) > SharedGenres(b, id)
    \/ /\ SharedGenres(a, id) = SharedGenres(b, id)
       /\ NumRatings(a) > NumRatings(b)
    \/ /\ SharedGenres(a, id) = SharedGenres(b, id)
       /\ NumRatings(a) = NumRatings(b)
       /\ a.movieId < b.movieId

(* C11: similarMovies(id, limit) lists its movies by descending number of  *)
(* genres shared with movie id, then by higher rating count, then by       *)
(* movieId ascending, and is the first limit entries of that order; for    *)
(* movies 1 'Ac|Co', 2 'Co', 3 'Dr' the movies similar to 1 with limit 10  *)
(* are exactly [2].                                                         *)
C11_SimilarOrder ==
    \A r \in DOMAIN pc :
        (Answered(r, "get_similar_movies") /\ resp[r].status \in {200, 404}) =>
        LET id    == Val(req[r].movie_id)
            out   == ListOf(resp[r])
            shown == {out[i] : i \in 1..Len(out)}
        IN  /\ \A i, j \in 1..Len(out) :
                 i < j => MoreSimilar(out[i], out[j], id)
            /\ \A a \in shown : \A b \in SharingGenre(id) \ shown :
                 MoreSimilar(a, b, id)
            /\ (movies = DefaultMovies /\ id = 1
                /\ req[r].limit = SIMILAR_LIMIT_DEFAULT) =>
                  out = <<Movie(2, Title_aB, Genres_Co)>>

(* equally many shared genres: the movie with more ratings comes first     *)
(* although its movieId is larger, and the limit cuts the other one off    *)
C11_Witness ==
    \E r \in DOMAIN pc :
        /\ Answered(r, "get_similar_movies")
        /\ resp[r].status = 200
        /\ req[r].limit = 1
        /\ \E b \in SharingGenre(Val(req[r].movie_id)) :
             /\ b.movieId < resp[r].body[1].movieId
             /\ SharedGenres(b, Val(req[r].movie_id))
                  = SharedGenres(resp[r].body[1], Val(req[r].movie_id))
             /\ NumRatings(b) < NumRatings(resp[r].body[1])

LikedBy(u) == {x \in ratings : x.userId = u /\ x.rating >= LIKED_THRESHOLD}

(* how many of u's liked movies carry genre g *)
GenreWeight(u, g) ==
    Cardinality({x \in LikedBy(u) :
                   \E m \in movies :
                       m.movieId = x.movieId /\ g \in GenreSet(m.genres)})

RECURSIVE SumWeights(_, _)
SumWeights(u, G) ==
    IF G = {} THEN 0
    ELSE LET g == CHOOSE x \in G : TRUE
         IN  GenreWeight(u, g) + SumWeights(u, G \ {g})

Score(u, m) == SumWeights(u, GenreSet(m.genres))

RatingRowsOf(m) == {x \in ratings : x.movieId = m.movieId}

(* the mean rating of a is above that of b; a movie without ratings has no *)
(* mean and is above no movie                                               *)
HigherMean(a, b) ==
    /\ RatingRowsOf(a) # {}
    /\ \/ RatingRowsOf(b) = {}
       \/ SumRatings(RatingRowsOf(a)) * Cardinality(RatingRowsOf(b))
            > SumRatings(RatingRowsOf(b)) * Cardinality(RatingRowsOf(a))

(* a is recommended to u before b *)
RecommendedBefore(a, b, u) ==
    \/ Score(u, a) > Score(u, b)
    \/ Score(u, a) = Score(u, b) /\ HigherMean(a, b)
    \/ /\ Score(u, a) = Score(u, b)
       /\ ~HigherMean(a, b) /\ ~HigherMean(b, a)
       /\ a.movieId < b.movieId

(* C12: recommendationsForUser(u, limit) orders the movies u has not rated *)
(* by the sum, over the movie's genres, of the number of u's liked movies  *)
(* with that genre, highest first, then by descending average rating, then *)
(* by movieId ascending, and returns the first limit entries of that order. *)
C12_RecommendationOrder ==
    \A r \in DOMAIN pc :
        (Answered(r, "get_recommendations") /\ resp[r].status = 200
         /\ LikedBy(Val(req[r].user_id)) # {}) =>
        LET u       == Val(req[r].user_id)
            out     == resp[r].body
            shown   == {out[i] : i \in 1..Len(out)}
            unrated == {m \in movies : m.movieId \notin RatedBy(u)}
        IN  /\ shown \subseteq unrated
            /\ Len(out) = Min(req[r].limit, Cardinality(unrated))
            /\ \A i, j \in 1..Len(out) :
                 i < j => RecommendedBefore(out[i], out[j], u)
            /\ \A a \in shown : \A b \in unrated \ shown :
                 RecommendedBefore(a, b, u)

(* two unrated movies with the same score: the better rated one comes      *)
(* first although its movieId is larger, and the limit cuts the other off  *)
C12_Witness ==
    \E r \in DOMAIN pc :
        /\ Answered(r, "get_recommendations")
        /\ resp[r].status = 200
        /\ req[r].limit = 1
        /\ Len(resp[r].body) = 1
        /\ \E b \in movies :
             /\ b.movieId \notin RatedBy(Val(req[r].user_id))
             /\ b.movieId < resp[r].body[1].movieId
             /\ Score(Val(req[r].user_id), b)
                  = Score(Val(req[r].user_id), resp[r].body[1])
             /\ Score(Val(req[r].user_id), b) > 0
             /\ RatingRowsOf(b) # {}
             /\ HigherMean(resp[r].body[1], b)

(* the design document's scenario on the movies 'Ac|Co', 'Co', 'Dr' *)
C11_Scenario ==
    \E r \in DOMAIN pc :
        /\ Answered(r, "get_similar_movies")
        /\ movies = DefaultMovies
        /\ req[r].movie_id = Some(1)
        /\ req[r].limit = SIMILAR_LIMIT_DEFAULT
        /\ resp[r] = R200(<<Movie(2, Title_aB, Genres_Co)>>)

InFlight(r) == pc[r] \in {"handling", "responded"}

SessionInv ==
    (* a request in flight holds one open session, an idle slot holds none *)
    /\ \A r \in DOMAIN pc :
         /\ InFlight(r) => (handle[r] # 0 /\ session[handle[r]].state = "open")
         /\ pc[r] = "idle" => handle[r] = 0
    (* no session is shared between two requests *)
    /\ \A r1, r2 \in DOMAIN pc :
         (r1 # r2 /\ handle[r1] # 0) => handle[r1] # handle[r2]
    (* every open session belongs to a request in flight *)
    /\ \A id \in DOMAIN session :
         session[id].state = "open" =>
             \E r \in DOMAIN pc : InFlight(r) /\ handle[r] = id
    (* close() is called once on a closed session and never on an open one *)
    /\ \A id \in DOMAIN session :
         /\ session[id].state = "closed" => session[id].closes = 1
         /\ session[id].state # "closed" => session[id].closes = 0
    (* once all requests have finished no session remains open *)
    /\ (\A r \in DOMAIN pc : pc[r] = "idle") =>
           \A id \in DOMAIN session : session[id].state # "open"

(* the handler reads through the open session of its own request, and the  *)
(* end of the request, after a 404 too, closes that session                *)
SessionSteps ==
    \A r \in DOMAIN pc :
        /\ (pc[r] = "handling" /\ pc'[r] = "responded") =>
              /\ session[handle[r]].state = "open"
              /\ session' = session /\ handle' = handle
        /\ (pc[r] = "responded" /\ pc'[r] = "idle") =>
              /\ session'[handle[r]] = [state |-> "closed", closes |-> 1]
              /\ \A id \in DOMAIN session \ {handle[r]} :
                   session'[id] = session[id]

(* C13: each request opens exactly one session, uses it only while it is   *)
(* handled, and the session is closed exactly once when the request ends,  *)
(* also after a 404; under every interleaving no session is shared, none   *)
(* is used after its close, every opened session is eventually closed and  *)
(* with all requests finished none remains open.                            *)
C13_SessionPerRequest ==
    /\ []SessionInv
    /\ [][SessionSteps]_vars
    /\ \A id \in ConcSlots :
         (session[id].state = "open") ~> (session[id].state = "closed")

(* a request answered 404 still holds its open session while the session   *)
(* of another, finished request has been closed once                        *)
C13_Witness ==
    \E r1, r2 \in DOMAIN pc :
        /\ r1 # r2
        /\ pc[r1] = "responded"
        /\ req[r1].ep = "read_movie"
        /\ resp[r1].status = 404
        /\ session[handle[r1]].state = "open"
        /\ pc[r2] = "idle"
        /\ \E id \in DOMAIN session :
             session[id] = [state |-> "closed", closes |-> 1]

====
